---- MODULE Spec2Model ----
(***************************************************************************)
(* A model of object_branch/data/suncg_multi.py: the paired-view SUNCG     *)
(* data set (SuncgDataset) and its batch collater (collate_fn).            *)
(*                                                                         *)
(* Four specifications share the module's variables:                       *)
(*   SpecSplit  parse_split_file on a manifest drawn from bounded lines;   *)
(*   SpecCodes  forward_codes and forward_affinity on selector outputs     *)
(*              drawn from bounded sets;                                   *)
(*   Spec       __getitem__ and collate_fn of a data set over a small      *)
(*              fixed disk, under every combination of the output flags.   *)
(*   SpecWorkers                                                           *)
(*              two loader workers whose __getitem__ calls interleave step *)
(*              by step over the one data set, and the collation of what   *)
(*              they return.                                               *)
(*                                                                         *)
(* Python strings that the code slices, splits or converts are sequences   *)
(* of one-character strings; dictionary keys are TLA+ strings.             *)
(***************************************************************************)
EXTENDS Naturals, Integers, Sequences, FiniteSets, TLC

VARIABLES
    pc,              \* position of the running operation
    split_file,      \* the manifest file: its lines, each with its newline
    lines,           \* parse_split_file: the local list of lines
    lx,              \* parse_split_file: index of the next line of the loop
    data_tuples,     \* parse_split_file: the local list of parsed tuples
    _data_tuples,    \* self._data_tuples
    _house_cameras,  \* self._house_cameras
    opts,            \* the configuration fields set by __init__
    raw,             \* forward_codes: what the selector and encoder returned
    out,             \* forward_codes: what it returned
    ids1,            \* select_node_ids of view 1
    ids2,            \* select_node_ids of view 2
    affinity,        \* the matrix forward_affinity returned
    valid_1,         \* __getitem__: validity of the element of view 1
    valid_2,         \* __getitem__: validity of the element of view 2
    batch,           \* the samples the loader has fetched for one batch
    collated,        \* what collate_fn returned
    workers          \* per loader worker: the locals of its __getitem__ call

vars == <<pc, split_file, lines, lx, data_tuples, _data_tuples, _house_cameras,
          opts, raw, out, ids1, ids2, affinity, valid_1, valid_2, batch, collated,
          workers>>

splitVars == <<split_file, lines, lx, data_tuples>>
codesVars == <<raw, out, ids1, ids2, affinity>>
loaderVars == <<valid_1, valid_2, batch, collated>>

\* A value no operation has produced yet.
None == [kind |-> "none", data |-> <<>>]

Min(a, b) == IF a < b THEN a ELSE b

----------------------------------------------------------------------------
(* Python's str and list primitives, as the code uses them.                *)

\* str.split(sep) with a one-character separator: every occurrence splits,
\* empty pieces are kept, and the result is never empty.
RECURSIVE SplitAcc(_, _, _, _, _)
SplitAcc(s, sep, i, cur, acc) ==
    IF i > Len(s) THEN Append(acc, cur)
    ELSE IF s[i] = sep THEN SplitAcc(s, sep, i + 1, <<>>, Append(acc, cur))
    ELSE SplitAcc(s, sep, i + 1, Append(cur, s[i]), acc)

PySplit(s, sep) == SplitAcc(s, sep, 1, <<>>, <<>>)

\* s[:n]
PyPrefix(s, n) == SubSeq(s, 1, Min(n, Len(s)))

\* s[n:]
PyDrop(s, n) == SubSeq(s, n + 1, Len(s))

\* s[i] for a non-negative i is in range iff i < len(s); s[-k] iff k <= len(s).
HasIndex(s, i) == i < Len(s)
HasNegIndex(s, k) == k <= Len(s)
NegIndex(s, k) == s[Len(s) - k + 1]

----------------------------------------------------------------------------
(* parse_split_file                                                        *)

\* The number of header lines the parser skips.
HeaderLines == 3

\* The field that holds view b's path, and the length of a view id.
View2Field == 8
ViewIdLen == 6

SkipHeaderShort(ls) == PyDrop(ls, HeaderLines - 1)

\* lines = lines[3:]
SkipHeader(ls) == PyDrop(ls, HeaderLines)

\* One iteration of the loop over the lines: the tuple the line yields, or the
\* IndexError it raises (splits[8] of a short line, [-2] of a path without '/').
ParseLine(line) ==
    LET splits == PySplit(line, " ")
    IN  IF ~HasIndex(splits, View2Field) THEN [ok |-> FALSE, tuple |-> <<>>]
        ELSE
        LET img1_path == splits[0 + 1]
            img2_path == splits[View2Field + 1]
            segs1 == PySplit(img1_path, "/")
            segs2 == PySplit(img2_path, "/")
        IN  IF ~HasNegIndex(segs1, 2) THEN [ok |-> FALSE, tuple |-> <<>>]
            ELSE
            LET house_id == NegIndex(segs1, 2)
                img1_name == NegIndex(segs1, 1)
                img2_name == NegIndex(segs2, 1)
                view1 == PyPrefix(img1_name, ViewIdLen)
                view2 == PyPrefix(img2_name, ViewIdLen)
            IN  [ok |-> TRUE, tuple |-> <<house_id, view1, view2>>]

----------------------------------------------------------------------------
(* The manifests parse_split_file is run on.                               *)

\* The most data lines a manifest holds.
MaxLines == 2

\* Paths of rendered views, as the manifest writes them.
PathA1 == <<"s", "/", "X", "/", "0", "0", "0", "0", "0", "1", "_", "m">>
PathB1 == <<"s", "/", "X", "/", "0", "0", "0", "0", "0", "9", "_", "m">>
PathA2 == <<"s", "/", "Y", "/", "0", "0", "0", "0", "0", "2", "_", "m", ".", "p">>
PathB2 == <<"s", "/", "Y", "/", "0", "0", "0", "0", "0", "3", "_", "m", ".", "p">>
PathNoSlash == <<"0", "0", "0", "0", "0", "1", "_", "m">>
PathNoScene == <<"/", "0", "0", "0", "0", "0", "1", "_", "m">>
PathShortA == <<"X", "/", "0", "1">>
PathShortB == <<"X", "/", "0", "2">>
Num == <<"0">>
Newline == <<"\n">>

RECURSIVE Join(_)
Join(fields) ==
    IF Len(fields) = 0 THEN <<>>
    ELSE IF Len(fields) = 1 THEN fields[1]
    ELSE fields[1] \o <<" ">> \o Join(Tail(fields))

\* view a's path, seven pose numbers, view b's path, then view b's numbers.
PoseFields == <<Num, Num, Num, Num, Num, Num, Num>>
PairLine(a, b) == Join(<<a>> \o PoseFields \o <<b>>) \o Newline
LongLine(a, b) == Join(<<a>> \o PoseFields \o <<b, Num, Num>>) \o Newline
ShortLine(a) == Join(<<a>> \o PoseFields) \o Newline
HeaderLine == <<"#", " ", "h">> \o Newline

DataLines ==
    { PairLine(PathA1, PathB1), LongLine(PathA2, PathB2), ShortLine(PathA1),
      Newline, PairLine(PathNoSlash, PathB1), PairLine(PathNoScene, PathB1),
      PairLine(PathShortA, PathShortB) }

RECURSIVE SeqsUpTo(_, _)
SeqsUpTo(S, n) ==
    IF n = 0 THEN {<<>>}
    ELSE LET shorter == SeqsUpTo(S, n - 1)
         IN  shorter \cup {Append(q, x) : q \in {r \in shorter : Len(r) = n - 1}, x \in S}

\* Three leading lines (the third may itself look like a data line), then the
\* data lines; or a file that ends within its header.
Headers == {<<HeaderLine, HeaderLine, h>> : h \in {HeaderLine, PairLine(PathA2, PathB2)}}
ManifestFiles ==
    {h \o d : h \in Headers, d \in SeqsUpTo(DataLines, MaxLines)}
    \cup {SubSeq(<<HeaderLine, HeaderLine>>, 1, k) : k \in 0..2}

InitSplit ==
    /\ pc = "open"
    /\ split_file \in ManifestFiles
    /\ lines = <<>>
    /\ lx = 1
    /\ data_tuples = <<>>
    /\ _data_tuples = <<>>
    /\ _house_cameras = None
    /\ opts = None
    /\ raw = None /\ out = None /\ ids1 = <<>> /\ ids2 = <<>> /\ affinity = None
    /\ valid_1 = FALSE /\ valid_2 = FALSE /\ batch = <<>> /\ collated = None
    /\ workers = <<>>

\* f.readlines(), then lines = lines[3:]
ReadLines ==
    /\ pc = "open"
    /\ lines' = SkipHeader(split_file)
    /\ lx' = 1
    /\ data_tuples' = <<>>
    /\ pc' = "loop"
    /\ UNCHANGED <<split_file, _data_tuples, _house_cameras, opts>>
    /\ UNCHANGED codesVars /\ UNCHANGED loaderVars /\ UNCHANGED workers

\* One iteration of "for line in lines": append the tuple, or raise.
ParseNext ==
    /\ pc = "loop"
    /\ lx <= Len(lines)
    /\ LET r == ParseLine(lines[lx])
       IN  IF r.ok
           THEN /\ data_tuples' = Append(data_tuples, r.tuple)
                /\ lx' = lx + 1
                /\ pc' = "loop"
           ELSE /\ pc' = "error"
                /\ UNCHANGED <<data_tuples, lx>>
    /\ UNCHANGED <<split_file, lines, _data_tuples, _house_cameras, opts>>
    /\ UNCHANGED codesVars /\ UNCHANGED loaderVars /\ UNCHANGED workers

\* self._data_tuples = data_tuples
StoreTuples ==
    /\ pc = "loop"
    /\ lx > Len(lines)
    /\ _data_tuples' = data_tuples
    /\ pc' = "done"
    /\ UNCHANGED <<split_file, lines, lx, data_tuples, _house_cameras, opts>>
    /\ UNCHANGED codesVars /\ UNCHANGED loaderVars /\ UNCHANGED workers

NextSplit == ReadLines \/ ParseNext \/ StoreTuples

SpecSplit == InitSplit /\ [][NextSplit]_vars

----------------------------------------------------------------------------
(* What a manifest line denotes, stated on the positions of its separators *)
(* rather than by splitting it.                                            *)

SepCount(s, sep) == Cardinality({i \in 1..Len(s) : s[i] = sep})

\* The position of the k-th separator; 0 before the first, Len + 1 after the last.
SepPos(s, sep, k) ==
    IF k = 0 THEN 0
    ELSE IF k > SepCount(s, sep) THEN Len(s) + 1
    ELSE CHOOSE i \in 1..Len(s) :
            s[i] = sep /\ Cardinality({j \in 1..i : s[j] = sep}) = k

\* Piece k (from 0) of s between its separators.
Piece(s, sep, k) == SubSeq(s, SepPos(s, sep, k) + 1, SepPos(s, sep, k + 1) - 1)

\* A line the parser can take: at least 9 space-separated fields, and a '/' in
\* view a's path.
WellFormedLine(line) ==
    /\ SepCount(line, " ") >= View2Field
    /\ SepCount(Piece(line, " ", 0), "/") >= 1

FileName(path) == Piece(path, "/", SepCount(path, "/"))
SceneOf(path) == Piece(path, "/", SepCount(path, "/") - 1)

IsPrefixOf(p, s) == Len(p) <= Len(s) /\ \A i \in 1..Len(p) : p[i] = s[i]

\* The manifest's lines after its header.
Remaining == IF Len(split_file) > HeaderLines
             THEN [i \in 1..(Len(split_file) - HeaderLines) |-> split_file[HeaderLines + i]]
             ELSE <<>>

\* C9 as the spec states it: after a successful parse there is one tuple per
\* line after the 3 header lines, in manifest order, every scene id is non-empty
\* and every view id has exactly 6 characters; a line with fewer than 9 fields
\* makes the parse fail, and a failed parse has stored no tuples.
C9_Original ==
    /\ pc = "done" =>
        /\ Len(_data_tuples) = Len(Remaining)
        /\ \A i \in 1..Len(Remaining) :
              /\ SepCount(Remaining[i], " ") >= View2Field
              /\ _data_tuples[i][1] = SceneOf(Piece(Remaining[i], " ", 0))
              /\ IsPrefixOf(_data_tuples[i][2], FileName(Piece(Remaining[i], " ", 0)))
              /\ IsPrefixOf(_data_tuples[i][3], FileName(Piece(Remaining[i], " ", View2Field)))
              /\ Len(_data_tuples[i][1]) > 0
              /\ Len(_data_tuples[i][2]) = ViewIdLen
              /\ Len(_data_tuples[i][3]) = ViewIdLen
    /\ pc = "error" => _data_tuples = <<>>

\* C9, amended: after a successful parse there is one tuple per line after the
\* 3 header lines, in manifest order; its scene id is the second-to-last
\* '/'-segment of view a's path (field 0) and its view ids are the first 6
\* characters of the file names of fields 0 and 8, the whole name when it is
\* shorter. A line with fewer than 9 space-separated fields, or with no '/' in
\* field 0, makes the parse fail at that line, and a failed parse has stored
\* no tuples.
C9_SplitIndex ==
    /\ pc = "done" =>
        /\ Len(_data_tuples) = Len(Remaining)
        /\ \A i \in 1..Len(Remaining) :
              /\ WellFormedLine(Remaining[i])
              /\ _data_tuples[i][1] = SceneOf(Piece(Remaining[i], " ", 0))
              /\ IsPrefixOf(_data_tuples[i][2], FileName(Piece(Remaining[i], " ", 0)))
              /\ IsPrefixOf(_data_tuples[i][3], FileName(Piece(Remaining[i], " ", View2Field)))
              /\ Len(_data_tuples[i][2]) =
                    Min(ViewIdLen, Len(FileName(Piece(Remaining[i], " ", 0))))
              /\ Len(_data_tuples[i][3]) =
                    Min(ViewIdLen, Len(FileName(Piece(Remaining[i], " ", View2Field))))
    /\ pc = "error" =>
        /\ _data_tuples = <<>>
        /\ lx <= Len(Remaining)
        /\ ~WellFormedLine(Remaining[lx])
        /\ \A i \in 1..(lx - 1) : WellFormedLine(Remaining[i])
    /\ pc = "loop" => \A i \in 1..(lx - 1) : WellFormedLine(Remaining[i])

\* A parse that stored two tuples, one of them from a line whose file names are
\* shorter than 6 characters.
C9_Witness ==
    /\ pc = "done"
    /\ Len(_data_tuples) = 2
    /\ \E i \in 1..2 : Len(_data_tuples[i][2]) < ViewIdLen
    /\ \E i \in 1..2 : Len(_data_tuples[i][2]) = ViewIdLen

----------------------------------------------------------------------------
(* Values. A numpy array, a torch tensor and a Python list that the        *)
(* collater converts are tagged with their kind; data holds the rows or    *)
(* the items.                                                              *)

NdArray(rows) == [kind |-> "ndarray", data |-> rows]
Tensor(rows) == [kind |-> "tensor", data |-> rows]
PyList(items) == [kind |-> "list", data |-> items]

\* seq[inds[0]], seq[inds[1]], ...: the indices are Python's, from 0.
Take(seq, inds) == [k \in 1..Len(inds) |-> seq[inds[k] + 1]]

----------------------------------------------------------------------------
(* The scenes on disk: one house with four rendered views.                 *)

House1 == <<"h", "1">>
View0 == <<"0", "0", "0", "0", "0", "0">>
View1 == <<"0", "0", "0", "0", "0", "1">>
View2 == <<"0", "0", "0", "0", "0", "2">>
View3 == <<"0", "0", "0", "0", "0", "3">>

\* int(view_id) of a string of decimal digits.
DigitValue(c) ==
    CASE c = "0" -> 0 [] c = "1" -> 1 [] c = "2" -> 2 [] c = "3" -> 3 [] c = "4" -> 4
      [] c = "5" -> 5 [] c = "6" -> 6 [] c = "7" -> 7 [] c = "8" -> 8 [] c = "9" -> 9

RECURSIVE PyIntAcc(_, _, _)
PyIntAcc(s, i, acc) ==
    IF i > Len(s) THEN acc ELSE PyIntAcc(s, i + 1, acc * 10 + DigitValue(s[i]))

PyInt(s) == PyIntAcc(s, 1, 0)

\* _preload_cameras: the camera poses of each house, one per view index.
Cameras == [h \in {House1} |-> <<100, 101, 102, 103>>]

----------------------------------------------------------------------------
(* forward_codes                                                           *)

\* opts.max_rois, the cap on the objects of a view.
MaxRois == 2

\* The most objects the selector returns for a view.
MaxRaw == 3

NodeIds == 1..MaxRaw

\* The sequences of n distinct members of S.
InjSeqs(S, n) == {q \in [1..n -> S] : \A i, j \in 1..n : q[i] = q[j] => i = j}

\* On-disk boxes are 1-indexed: the box of node k in a view whose boxes start
\* at o. OnDiskBox(1, 1) is the box [1, 1, 5, 5].
BoxOrigins == {1, 2}
OnDiskBox(o, k) == <<o + k - 1, o, o + k + 3, o + 4>>

\* suncg_parse.select_ids_multi: the objects selected in a view, their boxes and
\* their node ids, as three parallel arrays; every selected node appears once.
SelectorOutput(ids, o) ==
    [objects_data |-> [i \in 1..Len(ids) |-> <<"obj", ids[i]>>],
     objects_bboxes |-> NdArray([i \in 1..Len(ids) |-> OnDiskBox(o, ids[i])]),
     select_node_ids |-> ids]

\* scipy.linalg.inv(campose_to_extrinsic(campose)): the world-to-camera
\* transform of a camera pose.
World2Cam(campose) == <<"world2cam", campose>>

\* suncg_parse.codify_room_data: one code per selected object, in the camera's
\* frame.
codify_room_data(objects_data, world2cam) ==
    [i \in 1..Len(objects_data) |-> NdArray(<<objects_data[i][2], world2cam>>)]

\* np.random.permutation(n)[0:max_rois]: the leading max_rois entries of a
\* uniformly drawn permutation of 0..n-1.
SelectIndsWithReplacement(n, max_rois) == [1..Min(n, max_rois) -> 0..(n - 1)]

SelectInds(n, max_rois) ==
    {PyPrefix(p, max_rois) : p \in InjSeqs(0..(n - 1), n)}

BoxesUnshifted(bboxes) == bboxes

\* objects_bboxes -= 1
BoxesMinusOne(bboxes) ==
    NdArray([i \in 1..Len(bboxes.data) |->
                [c \in 1..Len(bboxes.data[i]) |-> bboxes.data[i][c] - 1]])

SubsampleIdsLeading(select_node_ids, select_inds) ==
    PyPrefix(select_node_ids, Len(select_inds))

\* select_node_ids = [select_node_ids[ix] for ix in select_inds]
SubsampleIds(select_node_ids, select_inds) == Take(select_node_ids, select_inds)

\* forward_codes: campose is the cached pose of the view, sel the selector's
\* result, select_inds the indices drawn when the objects exceed max_rois.
forward_codes(campose, sel, max_rois, select_inds) ==
    LET objects_codes == codify_room_data(sel.objects_data, World2Cam(campose))
        objects_bboxes == BoxesMinusOne(sel.objects_bboxes)
    IN  IF Len(objects_codes) > max_rois
        THEN [objects_codes |-> PyList(Take(objects_codes, select_inds)),
              objects_bboxes |-> NdArray(Take(objects_bboxes.data, select_inds)),
              select_node_ids |-> SubsampleIds(sel.select_node_ids, select_inds)]
        ELSE [objects_codes |-> PyList(objects_codes),
              objects_bboxes |-> objects_bboxes,
              select_node_ids |-> sel.select_node_ids]

\* The draws forward_codes can make on a selector output.
Draws(sel, max_rois) ==
    IF Len(sel.objects_data) > max_rois
    THEN SelectInds(Len(sel.objects_data), max_rois)
    ELSE {<<>>}

----------------------------------------------------------------------------
(* forward_affinity                                                        *)

forward_affinity_symmetric(select_node_ids1, select_node_ids2, max_rois) ==
    NdArray([i \in 1..max_rois |-> [j \in 1..max_rois |->
        IF \/ /\ i <= Len(select_node_ids1) /\ j <= Len(select_node_ids2)
              /\ select_node_ids1[i] = select_node_ids2[j]
           \/ /\ j <= Len(select_node_ids1) /\ i <= Len(select_node_ids2)
              /\ select_node_ids1[j] = select_node_ids2[i]
        THEN 1 ELSE 0]])

\* A max_rois x max_rois array of zeros in which the double loop over the two
\* id lists sets entry (i, j) when the ids are equal. Row i + 1, column j + 1
\* of data is the code's affinity[i, j].
forward_affinity(select_node_ids1, select_node_ids2, max_rois) ==
    NdArray([i \in 1..max_rois |-> [j \in 1..max_rois |->
        IF /\ i <= Len(select_node_ids1) /\ j <= Len(select_node_ids2)
           /\ select_node_ids1[i] = select_node_ids2[j]
        THEN 1 ELSE 0]])

----------------------------------------------------------------------------
(* SpecCodes: the object fetch of the two views of a sample and their      *)
(* affinity, on selector outputs drawn from bounded sets; and              *)
(* forward_affinity on arbitrary id lists within the cap.                  *)

SelectorOutputs ==
    {SelectorOutput(ids, o) :
        ids \in UNION {InjSeqs(NodeIds, n) : n \in 0..MaxRaw}, o \in BoxOrigins}

IdLists == UNION {[1..n -> NodeIds] : n \in 0..MaxRois}

InitCodes ==
    /\ pc = "view1"
    /\ split_file = <<>> /\ lines = <<>> /\ lx = 1 /\ data_tuples = <<>>
    /\ _data_tuples = <<>>
    /\ _house_cameras = Cameras
    /\ opts = [max_rois |-> MaxRois]
    /\ raw = None /\ out = None /\ ids1 = <<>> /\ ids2 = <<>> /\ affinity = None
    /\ valid_1 = FALSE /\ valid_2 = FALSE /\ batch = <<>> /\ collated = None
    /\ workers = <<>>

\* forward_codes of one view: of view 1, then of view 2.
ForwardCodes ==
    /\ pc \in {"view1", "view2"}
    /\ \E sel \in SelectorOutputs :
       \E select_inds \in Draws(sel, opts.max_rois) :
          LET view_id == IF pc = "view1" THEN View0 ELSE View1
              campose == _house_cameras[House1][PyInt(view_id) + 1]
              r == forward_codes(campose, sel, opts.max_rois, select_inds)
          IN  /\ raw' = [objects_codes |->
                            codify_room_data(sel.objects_data, World2Cam(campose)),
                         objects_bboxes |-> sel.objects_bboxes,
                         select_node_ids |-> sel.select_node_ids]
              /\ out' = r
              /\ IF pc = "view1"
                 THEN ids1' = r.select_node_ids /\ ids2' = ids2 /\ pc' = "view2"
                 ELSE ids2' = r.select_node_ids /\ ids1' = ids1 /\ pc' = "affinity"
    /\ UNCHANGED <<affinity, _data_tuples, _house_cameras, opts>>
    /\ UNCHANGED splitVars /\ UNCHANGED loaderVars /\ UNCHANGED workers

\* forward_affinity on the node ids of the two views, as __getitem__ calls it.
ForwardAffinity ==
    /\ pc = "affinity"
    /\ affinity' = forward_affinity(ids1, ids2, opts.max_rois)
    /\ pc' = "item_done"
    /\ UNCHANGED <<raw, out, ids1, ids2, _data_tuples, _house_cameras, opts>>
    /\ UNCHANGED splitVars /\ UNCHANGED loaderVars /\ UNCHANGED workers

\* forward_affinity called on any two id lists no longer than max_rois.
AffinityOfLists ==
    /\ pc = "view1"
    /\ \E a \in IdLists, b \in IdLists :
          /\ ids1' = a
          /\ ids2' = b
          /\ affinity' = forward_affinity(a, b, opts.max_rois)
    /\ pc' = "lists_done"
    /\ UNCHANGED <<raw, out, _data_tuples, _house_cameras, opts>>
    /\ UNCHANGED splitVars /\ UNCHANGED loaderVars /\ UNCHANGED workers

NextCodes == ForwardCodes \/ ForwardAffinity \/ AffinityOfLists

SpecCodes == InitCodes /\ [][NextCodes]_vars

----------------------------------------------------------------------------
(* Claims about forward_codes and forward_affinity, under SpecCodes.       *)

RECURSIVE SumSeq(_)
SumSeq(q) == IF Len(q) = 0 THEN 0 ELSE q[1] + SumSeq(Tail(q))

\* The sum of all entries of a matrix.
MatrixSum(m) == SumSeq([i \in 1..Len(m.data) |-> SumSeq(m.data[i])])

\* C3: forward_affinity returns a max_rois x max_rois matrix whose entry (i, j)
\* is 1 iff i and j index the two id lists and the ids there are equal, and 0
\* otherwise, so that every entry beyond either list is 0; for all id lists no
\* longer than max_rois, with or without repeated ids.
C3_AffinityEntries ==
    pc \in {"item_done", "lists_done"} =>
        /\ affinity.kind = "ndarray"
        /\ Len(affinity.data) = MaxRois
        /\ \A i \in 1..MaxRois :
              /\ Len(affinity.data[i]) = MaxRois
              /\ \A j \in 1..MaxRois :
                    /\ affinity.data[i][j] \in {0, 1}
                    /\ affinity.data[i][j] = 1 <=>
                          /\ i <= Len(ids1)
                          /\ j <= Len(ids2)
                          /\ ids1[i] = ids2[j]

\* Lists of different lengths with a repeated id: ones in one row, zero padding
\* in the other, and an asymmetric matrix.
C3_Witness ==
    /\ pc = "lists_done"
    /\ Len(ids1) = 1 /\ Len(ids2) = MaxRois
    /\ \A j \in 1..MaxRois : ids2[j] = ids1[1]
    /\ \A j \in 1..MaxRois : affinity.data[1][j] = 1 /\ affinity.data[MaxRois][j] = 0

\* C4: for the node-id lists forward_codes returns for the two views of a
\* sample, the entries of the affinity matrix sum to at most the smaller of
\* the two views' object counts.
C4_AffinitySum ==
    pc = "item_done" => MatrixSum(affinity) <= Min(Len(ids1), Len(ids2))

\* Two views at the cap that show the same objects in a different order.
C4_Witness ==
    /\ pc = "item_done"
    /\ Len(ids1) = MaxRois /\ Len(ids2) = MaxRois
    /\ MatrixSum(affinity) = MaxRois
    /\ ids1 # ids2

\* The index sequences of length m into a raw array of n entries that select no
\* index twice.
IndexChoices(n, m) ==
    {S \in [1..m -> 0..(n - 1)] : \A a, b \in 1..m : S[a] = S[b] => a = b}

\* C6: what forward_codes returns is the selector's output restricted to one
\* index sequence S of min(raw count, max_rois) distinct raw indices: codes,
\* boxes and node ids have the same length, at most max_rois, and entry k of
\* each comes from raw index S[k]; with a raw count within max_rois the node ids
\* (and the codes) are the raw ones in their order; with a larger raw count the
\* length is exactly max_rois.
C6_Capacity ==
    out # None =>
        LET n == Len(raw.select_node_ids)
            m == Min(n, MaxRois)
        IN  /\ Len(out.objects_codes.data) = m
            /\ Len(out.objects_bboxes.data) = m
            /\ Len(out.select_node_ids) = m
            /\ m <= MaxRois
            /\ n > MaxRois => m = MaxRois
            /\ n <= MaxRois =>
                  /\ out.select_node_ids = raw.select_node_ids
                  /\ out.objects_codes.data = raw.objects_codes
            /\ \E S \in IndexChoices(n, m) :
                  \A k \in 1..m :
                     /\ out.objects_codes.data[k] = raw.objects_codes[S[k] + 1]
                     /\ out.select_node_ids[k] = raw.select_node_ids[S[k] + 1]
                     /\ \A c \in 1..4 :
                           out.objects_bboxes.data[k][c] =
                              raw.objects_bboxes.data[S[k] + 1][c] - 1

\* More raw objects than the cap, and a draw that is no leading part of them.
C6_Witness ==
    /\ out # None
    /\ Len(raw.select_node_ids) = MaxRois + 1
    /\ Len(out.select_node_ids) = MaxRois
    /\ out.select_node_ids[1] = raw.select_node_ids[MaxRois + 1]
    /\ out.select_node_ids[MaxRois] = raw.select_node_ids[1]

----------------------------------------------------------------------------
(* The per-view fetchers and forward_single_item.                          *)

PyStr(chars) == [kind |-> "str", data |-> chars]

\* A dict: its keys in insertion order, and the value of each key.
EmptyDict == [keys |-> <<>>, val |-> <<>>]
Put(d, key, value) ==
    [keys |-> IF key \in DOMAIN d.val THEN d.keys ELSE Append(d.keys, key),
     val |-> [k \in (DOMAIN d.val) \cup {key} |-> IF k = key THEN value ELSE d.val[k]]]

\* opts.suncg_dl_max_proposals
MaxProposals == 40

\* The objects the selector finds in each view, and where its boxes start.
DiskIds(view_id) ==
    CASE view_id = View0 -> <<1, 2>>
      [] view_id = View1 -> <<2, 3, 1>>
      [] view_id = View2 -> <<>>
      [] view_id = View3 -> <<3>>

DiskOrigin(view_id) == IF view_id = View1 THEN 2 ELSE 1

\* suncg_parse.select_ids_multi on the house's scene graph and the view's boxes.
select_ids_multi(house_name, view_id) ==
    SelectorOutput(DiskIds(view_id), DiskOrigin(view_id))

\* The edgebox proposals of each view, 1-indexed as on disk: a proposal is the
\* box of an object of the view or a box that overlaps none.
FarBox == <<41, 41, 45, 45>>
DiskProposals(view_id) ==
    CASE view_id = View0 -> <<OnDiskBox(1, 1), FarBox>>
      [] view_id = View1 -> <<OnDiskBox(2, 3)>>
      [] view_id = View2 -> <<FarBox>>
      [] view_id = View3 -> <<>>

\* proposals_data['proposals'][:,0:4], then bboxes_proposals -= 1
ProposalBoxes(house_name, view_id) ==
    LET on_disk == DiskProposals(view_id)
    IN  NdArray([i \in 1..Len(on_disk) |-> [c \in 1..4 |-> on_disk[i][c] - 1]])

\* suncg_parse.extract_proposal_codes: each proposal is labelled by its overlap
\* with the ground-truth boxes; with only_pos_proposals only the overlapping
\* ones are kept; at most max_proposals are returned.
extract_proposal_codes(codes_gt, bboxes_gt, bboxes_proposals, max_proposals, only_pos_proposals) ==
    LET Overlaps(p) == \E k \in 1..Len(bboxes_gt.data) : bboxes_gt.data[k] = p
        Keep(p) == ~only_pos_proposals \/ Overlaps(p)
        kept == PyPrefix(SelectSeq(bboxes_proposals.data, Keep), max_proposals)
        CodeOf(p) == IF Overlaps(p)
                     THEN codes_gt.data[CHOOSE k \in 1..Len(bboxes_gt.data) :
                                            bboxes_gt.data[k] = p]
                     ELSE NdArray(<<0>>)
    IN  [codes |-> PyList([i \in 1..Len(kept) |-> CodeOf(kept[i])]),
         bboxes |-> NdArray(kept),
         labels |-> NdArray([i \in 1..Len(kept) |-> IF Overlaps(kept[i]) THEN 1 ELSE 0])]

forward_proposals(house_name, view_id, codes_gt, bboxes_gt) ==
    extract_proposal_codes(codes_gt, bboxes_gt, ProposalBoxes(house_name, view_id),
                           opts.max_proposals, opts.only_pos_proposals)

forward_test_proposals(house_name, view_id) == ProposalBoxes(house_name, view_id)

\* forward_img: the rendering of the view at the coarse and the fine size.
forward_img(house, view_id) ==
    [img |-> NdArray(<< <<"mlt", house, view_id, "coarse">> >>),
     img_fine |-> NdArray(<< <<"mlt", house, view_id, "fine">> >>),
     house_name |-> PyStr(house),
     view_id |-> PyStr(view_id)]

forward_layout(house_name, view_id) == NdArray(<< <<"layout", house_name, view_id>> >>)
forward_voxels(house_name, view_id) == NdArray(<< <<"voxels", house_name, view_id>> >>)

\* The local variable valid: unbound until a branch assigns it.
Unbound == [bound |-> FALSE, val |-> FALSE]
Bound(b) == [bound |-> TRUE, val |-> b]

\* The locals of forward_single_item between its steps: the element so far,
\* valid, codes_gt and bboxes_gt (has_gt: whether the code branch bound them),
\* and whether a step has raised.
ItemImg(im) ==
    [elem |-> Put(Put(Put(EmptyDict, "img", im.img), "house_name", im.house_name),
                  "view_id", im.view_id),
     img_fine |-> im.img_fine,
     valid |-> Unbound, has_gt |-> FALSE, codes_gt |-> None, bboxes_gt |-> None,
     raised |-> FALSE]

\* Lines 300-302
ItemLayout(house_name, view_id, st) ==
    IF opts.output_layout
    THEN [st EXCEPT !.elem = Put(st.elem, "layout", forward_layout(house_name, view_id))]
    ELSE st

\* Lines 304-306
ItemVoxels(house_name, view_id, st) ==
    IF opts.output_voxels
    THEN [st EXCEPT !.elem = Put(st.elem, "voxels", forward_voxels(house_name, view_id))]
    ELSE st

\* Lines 309-318, with gt what forward_codes returned: a view without boxes
\* gets an empty list for its boxes and valid = False.
CodesInto(st, gt) ==
    [st EXCEPT
        !.elem = Put(Put(Put(st.elem, "codes", gt.objects_codes),
                         "bboxes", IF Len(gt.objects_bboxes.data) = 0
                                   THEN PyList(<<>>) ELSE gt.objects_bboxes),
                     "select_node_ids", gt.select_node_ids),
        !.valid = Bound(Len(gt.objects_bboxes.data) # 0),
        !.has_gt = TRUE,
        !.codes_gt = gt.objects_codes,
        !.bboxes_gt = gt.objects_bboxes]

\* Lines 308-318
ItemCodes(house_name, view_id, select_inds, st) ==
    IF opts.output_codes
    THEN CodesInto(st, forward_codes(_house_cameras[house_name][PyInt(view_id) + 1],
                                     select_ids_multi(house_name, view_id),
                                     opts.max_rois, select_inds))
    ELSE st

\* Line 321: the proposal branch starts from valid = True.
ProposalsResetValid(valid) == Bound(TRUE)

\* Lines 321-331, with pr what forward_proposals returned.
ProposalsInto(st, pr) ==
    IF Len(pr.labels.data) = 0
    THEN [st EXCEPT
            !.elem = Put(Put(Put(st.elem, "codes_proposals", pr.codes),
                             "bboxes_proposals", PyList(<<>>)),
                         "labels_proposals", PyList(<<>>)),
            !.valid = Bound(FALSE)]
    ELSE [st EXCEPT
            !.elem = Put(Put(Put(st.elem, "codes_proposals", pr.codes),
                             "bboxes_proposals", pr.bboxes),
                         "labels_proposals", pr.labels),
            !.valid = ProposalsResetValid(st.valid)]

\* Lines 320-331: reading codes_gt raises when the code branch did not run.
ItemProposals(house_name, view_id, st) ==
    IF ~opts.output_proposals THEN st
    ELSE IF ~st.has_gt THEN [st EXCEPT !.raised = TRUE]
    ELSE ProposalsInto(st, forward_proposals(house_name, view_id,
                                             st.codes_gt, st.bboxes_gt))

\* Lines 334-340, with tp what forward_test_proposals returned.
TestInto(st, tp) ==
    IF Len(tp.data) = 0
    THEN [st EXCEPT !.elem = Put(st.elem, "bboxes_test_proposals", PyList(<<>>)),
                    !.valid = Bound(FALSE)]
    ELSE [st EXCEPT !.elem = Put(st.elem, "bboxes_test_proposals", tp)]

\* Lines 333-340
ItemTestProposals(house_name, view_id, st) ==
    IF opts.output_test_proposals /\ ~st.raised
    THEN TestInto(st, forward_test_proposals(house_name, view_id))
    ELSE st

\* Lines 342-344: returning valid raises when no branch has bound it.
ItemReturn(st) ==
    IF st.raised \/ ~st.valid.bound
    THEN [raised |-> TRUE, valid |-> FALSE, elem |-> EmptyDict]
    ELSE [raised |-> FALSE,
          valid |-> st.valid.val,
          elem |-> IF opts.output_fine_img
                   THEN Put(st.elem, "img_fine", st.img_fine) ELSE st.elem]

\* forward_single_item. select_inds is the draw forward_codes makes. The result
\* is (valid, elem), or raised when the code reads a local no branch has bound:
\* codes_gt with proposals but no codes, valid with none of the three outputs
\* having assigned it.
forward_single_item(house, view_id, select_inds) ==
    ItemReturn(
        ItemTestProposals(house, view_id,
            ItemProposals(house, view_id,
                ItemCodes(house, view_id, select_inds,
                    ItemVoxels(house, view_id,
                        ItemLayout(house, view_id,
                            ItemImg(forward_img(house, view_id))))))))

\* The draws forward_single_item can make for a view.
ItemDraws(house, view_id) ==
    IF opts.output_codes
    THEN Draws(select_ids_multi(house, view_id), opts.max_rois)
    ELSE {<<>>}

\* Lines 273-283, with r1 and r2 what forward_single_item returned for the
\* two views: raised when a view raised or has no select_node_ids.
MakeItem(r1, r2) ==
    IF r1.raised \/ r2.raised
       \/ "select_node_ids" \notin DOMAIN r1.elem.val
       \/ "select_node_ids" \notin DOMAIN r2.elem.val
    THEN [raised |-> TRUE]
    ELSE [raised |-> FALSE,
          valid_1 |-> r1.valid,
          valid_2 |-> r2.valid,
          item |-> [valid |-> r1.valid /\ r2.valid,
                    views |-> <<r1.elem, r2.elem>>,
                    gt_affinity |->
                        forward_affinity(r1.elem.val["select_node_ids"],
                                         r2.elem.val["select_node_ids"],
                                         opts.max_rois)]]

\* __getitem__: both views, the AND of their validity, and the affinity of
\* their node ids.
getitem(index, draw1, draw2) ==
    MakeItem(forward_single_item(_data_tuples[index + 1][1],
                                 _data_tuples[index + 1][2], draw1),
             forward_single_item(_data_tuples[index + 1][1],
                                 _data_tuples[index + 1][3], draw2))

----------------------------------------------------------------------------
(* collate_fn                                                              *)

\* recursive_convert_to_torch on the values the collater passes it: a tensor
\* is kept, an array becomes a tensor (of zeros of its shape when it is empty),
\* a list is converted item by item.
RECURSIVE recursive_convert_to_torch(_)
recursive_convert_to_torch(elem) ==
    IF elem.kind = "tensor" THEN elem
    ELSE IF elem.kind = "ndarray"
         THEN IF Len(elem.data) = 0 THEN Tensor(<<>>) ELSE Tensor(elem.data)
    ELSE IF elem.kind = "list"
         THEN PyList([i \in 1..Len(elem.data) |-> recursive_convert_to_torch(elem.data[i])])
    ELSE elem

\* torch's default_collate of a non-empty list: arrays are stacked along a new
\* leading axis, strings are returned as the list of them.
default_collate(items) ==
    IF items[1].kind = "ndarray"
    THEN Tensor([i \in 1..Len(items) |-> items[i].data])
    ELSE items

\* default_collate of one array of labels: the tensor of its entries.
default_collate_labels(labels) == Tensor(labels.data)

RECURSIVE ConcatAll(_)
ConcatAll(qs) == IF Len(qs) = 0 THEN <<>> ELSE qs[1] \o ConcatAll(Tail(qs))

AllItems(items) == items

\* Lines 384-393: the items whose valid flag is set, in order.
ValidItems(items) ==
    LET IsValid(item) == item.valid
    IN  SelectSeq(items, IsValid)

RaggedKeys == {"codes", "bboxes", "codes_proposals", "bboxes_proposals",
               "bboxes_test_proposals"}
ListKeys == RaggedKeys \cup {"house_name", "view_id"}
DenseKeys == {"img", "img_fine", "labels_proposals"}

\* Line 410: torch.cat of the label tensors of the given views, which raises
\* when there is none.
CatLabels(key, vid, nonempty) ==
    IF Len(nonempty) = 0 THEN [raised |-> TRUE, value |-> <<>>]
    ELSE [raised |-> FALSE,
          value |-> Tensor(ConcatAll(
              [b \in 1..Len(nonempty) |->
                  default_collate_labels(nonempty[b][vid].val[key]).data]))]

\* The views whose field key of slot vid has size > 0.
WithSize(key, vid, views) ==
    LET NonEmpty(v) == Len(v[vid].val[key].data) > 0
    IN  SelectSeq(views, NonEmpty)

\* Lines 405-414: one field of one view slot over the kept samples. vid is 1
\* for view a and 2 for view b; views is the list of the kept samples' views.
\* A label field that is a list has no size, and reading it raises.
CollateField(key, vid, views) ==
    IF key \in RaggedKeys
    THEN [raised |-> FALSE,
          value |-> [b \in 1..Len(views) |->
                        recursive_convert_to_torch(views[b][vid].val[key])]]
    ELSE IF key = "labels_proposals"
    THEN IF \E b \in 1..Len(views) : views[b][vid].val[key].kind # "ndarray"
         THEN [raised |-> TRUE, value |-> <<>>]
         ELSE CatLabels(key, vid, WithSize(key, vid, views))
    ELSE [raised |-> FALSE,
          value |-> default_collate([b \in 1..Len(views) |-> views[b][vid].val[key]])]

\* The collated view of slot vid over the given keys.
BuildView(vid, views, keys) ==
    [raised |-> \E i \in 1..Len(keys) : CollateField(keys[i], vid, views).raised,
     keys |-> keys,
     val |-> [k \in {keys[i] : i \in 1..Len(keys)} |->
                 CollateField(k, vid, views).value]]

\* Lines 403-415: the collated view of slot vid; its keys are those of the
\* first kept sample's view, without select_node_ids.
CollateView(vid, views) ==
    LET NotSkipped(key) == key # "select_node_ids"
    IN  BuildView(vid, views, SelectSeq(views[1][vid].keys, NotSkipped))

ChainSwapped(a, b) == b \o a

\* itertools.chain.from_iterable over the two views' lists.
Chain(a, b) == a \o b

ConcatFieldGuess(key, view_a, view_b) ==
    IF key \in ListKeys
    THEN [raised |-> FALSE, value |-> Chain(view_a.val[key], view_b.val[key])]
    ELSE [raised |-> FALSE, value |-> Tensor(view_a.val[key].data \o view_b.val[key].data)]

\* Lines 419-426: one field of the two collated views concatenated, or the
\* ValueError of a field of neither kind.
ConcatField(key, view_a, view_b) ==
    IF key \in ListKeys
    THEN [raised |-> FALSE, value |-> Chain(view_a.val[key], view_b.val[key])]
    ELSE IF key \in DenseKeys
    THEN [raised |-> FALSE, value |-> Tensor(view_a.val[key].data \o view_b.val[key].data)]
    ELSE [raised |-> TRUE, value |-> <<>>]

\* Lines 418-426: the concatenation of the two collated views, field by field;
\* raised when collating a view raised or a field is of neither kind.
ConcatViews(view_a, view_b) ==
    IF view_a.raised \/ view_b.raised
    THEN [raised |-> TRUE, keys |-> <<>>, val |-> EmptyDict.val]
    ELSE [raised |-> \E i \in 1..Len(view_a.keys) :
                        ConcatField(view_a.keys[i], view_a, view_b).raised,
          keys |-> view_a.keys,
          val |-> [k \in {view_a.keys[i] : i \in 1..Len(view_a.keys)} |->
                      ConcatField(k, view_a, view_b).value]]

LeaveEmptyFlag(collated_batch) == collated_batch

\* Line 429: collated_batch['empty'] = False
ClearEmptyFlag(collated_batch) == [collated_batch EXCEPT !.empty = FALSE]

\* Lines 397-431, with affinities the kept samples' matrices and concat_views
\* the concatenated views.
FinishBatch(affinities, concat_views) ==
    IF concat_views.raised
    THEN [raised |-> TRUE, batch |-> None]
    ELSE [raised |-> FALSE,
          batch |-> ClearEmptyFlag(
              [empty |-> TRUE,
               gt_affinity |-> default_collate(affinities),
               views |-> [keys |-> concat_views.keys, val |-> concat_views.val]])]

\* Lines 393-431, with kept the valid items.
CollateKept(kept) ==
    IF Len(kept) <= 0
    THEN [raised |-> FALSE, batch |-> [empty |-> TRUE]]
    ELSE FinishBatch([b \in 1..Len(kept) |-> kept[b].gt_affinity],
                     ConcatViews(CollateView(1, [b \in 1..Len(kept) |-> kept[b].views]),
                                 CollateView(2, [b \in 1..Len(kept) |-> kept[b].views])))

\* collate_fn: the batch it returns, or raised.
collate_fn(items) == CollateKept(ValidItems(items))

----------------------------------------------------------------------------
(* Spec: a loader over the data set. It fetches samples by index into a    *)
(* batch, collates the batch, and goes on to the next batch; an exception  *)
(* of a fetch or of the collater ends the iteration.                       *)

\* The most samples of a batch.
MaxBatch == 3

DataTuples == << <<House1, View0, View1>>, <<House1, View0, View2>>,
                 <<House1, View3, View0>> >>

AllOpts ==
    [output_codes : BOOLEAN, output_proposals : BOOLEAN,
     output_test_proposals : BOOLEAN, only_pos_proposals : BOOLEAN,
     output_layout : BOOLEAN, output_voxels : BOOLEAN, output_fine_img : BOOLEAN,
     max_rois : {MaxRois}, max_proposals : {MaxProposals}]

Init ==
    /\ pc = "fetch"
    /\ split_file = <<>> /\ lines = <<>> /\ lx = 1 /\ data_tuples = <<>>
    /\ _data_tuples = DataTuples
    /\ _house_cameras = Cameras
    /\ opts \in AllOpts
    /\ raw = None /\ out = None /\ ids1 = <<>> /\ ids2 = <<>> /\ affinity = None
    /\ valid_1 = FALSE /\ valid_2 = FALSE /\ batch = <<>> /\ collated = None
    /\ workers = <<>>

\* The loader fetches dataset[index] for the batch it is filling.
GetItem ==
    /\ pc = "fetch"
    /\ Len(batch) < MaxBatch
    /\ \E index \in 0..(Len(_data_tuples) - 1) :
       \E draw1 \in ItemDraws(_data_tuples[index + 1][1], _data_tuples[index + 1][2]) :
       \E draw2 \in ItemDraws(_data_tuples[index + 1][1], _data_tuples[index + 1][3]) :
       \E r \in {getitem(index, draw1, draw2)} :
              IF r.raised
              THEN /\ pc' = "fetch_error"
                   /\ UNCHANGED <<valid_1, valid_2, batch>>
              ELSE /\ pc' = "fetch"
                   /\ valid_1' = r.valid_1
                   /\ valid_2' = r.valid_2
                   /\ batch' = Append(batch, r.item)
    /\ UNCHANGED <<collated, _data_tuples, _house_cameras, opts>>
    /\ UNCHANGED splitVars /\ UNCHANGED codesVars /\ UNCHANGED workers

\* The loader hands the fetched samples to collate_fn.
Collate ==
    /\ pc = "fetch"
    /\ \E r \in {collate_fn(batch)} :
           IF r.raised
           THEN pc' = "collate_error" /\ UNCHANGED collated
           ELSE pc' = "collated" /\ collated' = r.batch
    /\ UNCHANGED <<valid_1, valid_2, batch, _data_tuples, _house_cameras, opts>>
    /\ UNCHANGED splitVars /\ UNCHANGED codesVars /\ UNCHANGED workers

\* The batch is consumed and the loader starts the next one.
NextBatch ==
    /\ pc = "collated"
    /\ pc' = "fetch"
    /\ batch' = <<>>
    /\ collated' = None
    /\ UNCHANGED <<valid_1, valid_2, _data_tuples, _house_cameras, opts>>
    /\ UNCHANGED splitVars /\ UNCHANGED codesVars /\ UNCHANGED workers

Next == GetItem \/ Collate \/ NextBatch

Spec == Init /\ [][Next]_vars

----------------------------------------------------------------------------
(* Claims about __getitem__ and collate_fn, under Spec.                    *)

\* The samples of the batch whose valid flag is set, in batch order.
ValidSamples ==
    LET Flagged(sample) == sample.valid
    IN  SelectSeq(batch, Flagged)

\* c is the converted codes of a view element: the same codes, as tensors.
SameCodes(c, codes) ==
    /\ c.kind = "list"
    /\ Len(c.data) = Len(codes.data)
    /\ \A i \in 1..Len(codes.data) :
          c.data[i].kind = "tensor" /\ c.data[i].data = codes.data[i].data

\* c is the converted boxes of a view element: the same rows, as a tensor (an
\* element without boxes holds an empty list).
SameBoxes(c, bboxes) ==
    IF bboxes.kind = "ndarray"
    THEN c.kind = "tensor" /\ c.data = bboxes.data
    ELSE c = bboxes

\* Position p of the four list fields of the collated views holds element e.
HoldsElement(p, e) ==
    /\ collated.views.val["house_name"][p] = e.val["house_name"]
    /\ collated.views.val["view_id"][p] = e.val["view_id"]
    /\ SameCodes(collated.views.val["codes"][p], e.val["codes"])
    /\ SameBoxes(collated.views.val["bboxes"][p], e.val["bboxes"])

\* C1: collate_fn drops all and only the invalid samples: a batch returned for
\* a list with N >= 1 valid samples has gt_affinity of length N and codes,
\* bboxes, house_name and view_id of length 2N; every entry is a view of a
\* valid sample and every view of every valid sample is an entry.
C1_DropsInvalid ==
    (pc = "collated" /\ Len(ValidSamples) >= 1) =>
        LET N == Len(ValidSamples)
        IN  /\ Len(collated.gt_affinity.data) = N
            /\ \A key \in {"codes", "bboxes", "house_name", "view_id"} :
                  /\ key \in DOMAIN collated.views.val
                  /\ Len(collated.views.val[key]) = 2 * N
            /\ \A p \in 1..(2 * N) :
                  \E b \in 1..N, vid \in 1..2 : HoldsElement(p, ValidSamples[b].views[vid])
            /\ \A b \in 1..N, vid \in 1..2 :
                  \E p \in 1..(2 * N) : HoldsElement(p, ValidSamples[b].views[vid])

\* A returned batch for the list valid, invalid, valid.
C1_Witness ==
    /\ pc = "collated"
    /\ Len(batch) = 3
    /\ batch[1].valid /\ ~batch[2].valid /\ batch[3].valid
    /\ Len(collated.gt_affinity.data) = 2
    /\ Len(collated.views.val["codes"]) = 4

\* C2: collating a list without a valid sample, the empty list included,
\* returns (never raises) a batch whose only key is empty, set to True; a batch
\* returned for a list with a valid sample has empty = False, gt_affinity and
\* views.
C2_EmptyMarker ==
    /\ (pc = "collated" /\ Len(ValidSamples) = 0) =>
            DOMAIN collated = {"empty"} /\ collated.empty = TRUE
    /\ (pc = "collated" /\ Len(ValidSamples) >= 1) =>
            /\ collated.empty = FALSE
            /\ {"gt_affinity", "views"} \subseteq DOMAIN collated
    /\ pc = "collate_error" => Len(ValidSamples) >= 1

\* The empty marker returned for a list of two or more samples, all invalid.
C2_Witness ==
    /\ pc = "collated"
    /\ Len(batch) >= 2
    /\ \A b \in 1..Len(batch) : ~batch[b].valid
    /\ collated.empty = TRUE

\* An enabled output of a view element that came back empty.
EmptyOutput(e) ==
    \/ opts.output_codes /\ Len(e.val["bboxes"].data) = 0
    \/ opts.output_proposals /\ Len(e.val["labels_proposals"].data) = 0
    \/ opts.output_test_proposals /\ Len(e.val["bboxes_test_proposals"].data) = 0

\* C5: a view element with an enabled output that is empty (no boxes with
\* codes, no proposals with proposals, no boxes with test proposals) is marked
\* invalid, under every combination of the three flags, and the sample is valid
\* iff both of its views are. Stated of the sample __getitem__ returned last.
C5_Validity ==
    Len(batch) > 0 =>
        LET sample == batch[Len(batch)]
        IN  /\ EmptyOutput(sample.views[1]) => ~valid_1
            /\ EmptyOutput(sample.views[2]) => ~valid_2
            /\ sample.valid <=> (valid_1 /\ valid_2)

\* C7: in a returned batch of N valid samples, position k of codes, bboxes,
\* house_name, view_id and img is view a of the k-th valid sample, position
\* N + k is view b of that sample, and gt_affinity[k] is that sample's matrix.
C7_ViewOrder ==
    (pc = "collated" /\ Len(ValidSamples) >= 1) =>
        LET N == Len(ValidSamples)
        IN  \A k \in 1..N :
               /\ HoldsElement(k, ValidSamples[k].views[1])
               /\ HoldsElement(N + k, ValidSamples[k].views[2])
               /\ collated.views.val["img"].kind = "tensor"
               /\ Len(collated.views.val["img"].data) = 2 * N
               /\ collated.views.val["img"].data[k] = ValidSamples[k].views[1].val["img"].data
               /\ collated.views.val["img"].data[N + k] =
                     ValidSamples[k].views[2].val["img"].data
               /\ collated.gt_affinity.data[k] = ValidSamples[k].gt_affinity.data

\* Two different valid samples around an invalid one, collated.
C7_Witness ==
    /\ pc = "collated"
    /\ Len(batch) = 3
    /\ batch[1].valid /\ ~batch[2].valid /\ batch[3].valid
    /\ batch[1].views[1].val["view_id"] # batch[3].views[1].val["view_id"]
    /\ batch[1].gt_affinity # batch[3].gt_affinity
    /\ collated.views.val["view_id"][1] # collated.views.val["view_id"][3]

KnownFields == {"codes", "bboxes", "codes_proposals", "bboxes_proposals",
                "bboxes_test_proposals", "house_name", "view_id",
                "img", "img_fine", "labels_proposals"}

\* The fields of a view element that reach the concatenation step.
ReachConcat(e) == {e.keys[i] : i \in 1..Len(e.keys)} \ {"select_node_ids"}

\* C8: a batch is returned only when every field that reaches the
\* concatenation step is a known list or dense field: with any other field the
\* collater raises and returns nothing. select_node_ids is in every element
\* and in no collated view.
C8_UnknownField ==
    /\ (pc = "collated" /\ Len(ValidSamples) >= 1) =>
            /\ ReachConcat(ValidSamples[1].views[1]) \subseteq KnownFields
            /\ DOMAIN collated.views.val = ReachConcat(ValidSamples[1].views[1])
            /\ "select_node_ids" \in DOMAIN ValidSamples[1].views[1].val
            /\ "select_node_ids" \notin DOMAIN collated.views.val
    /\ pc = "collate_error" => collated = None

\* The collater raising on the layout field of a batch with a valid sample.
C8_Witness ==
    /\ pc = "collate_error"
    /\ opts.output_layout /\ ~opts.output_voxels
    /\ Len(ValidSamples) >= 1
    /\ "layout" \in DOMAIN ValidSamples[1].views[1].val

----------------------------------------------------------------------------
(* SpecWorkers: the loader's workers share the data set. Each worker runs  *)
(* one __getitem__ call at a time, and the steps of the calls interleave:  *)
(* the read of the split index, the fetch of view 1, the fetch of view 2,  *)
(* the affinity and the return. When every worker has returned, the batch  *)
(* is collated.                                                            *)

Workers == {"w1", "w2"}

\* A worker between two calls.
Idle == [at |-> "idle", index |-> 0, house |-> <<>>, view1 |-> <<>>, view2 |-> <<>>,
         r1 |-> None, r2 |-> None, item |-> None]

\* Line 270: self._data_tuples[index] is unpacked into three locals. The list
\* is indexed, never assigned, and its tuples cannot be changed in place.
DataTuplesAfterGetItem(tuples, index) == tuples

CamerasPoseShifted(cameras, house_name, view_id) ==
    [cameras EXCEPT ![house_name][PyInt(view_id) + 1] = @ - 1]

\* Lines 182-184: campose names the cached pose of the view; the extrinsic and
\* its inverse are new arrays (.astype copies), and the one in-place operation
\* of forward_codes, line 198, is on the boxes read from disk. The cache is
\* left as it was.
CamerasAfterCodes(cameras, house_name, view_id) == cameras

\* Lines 285-344: forward_single_item and the fetchers it calls read the
\* output flags, max_rois and max_proposals of self and assign none of them.
OptsAfterItem(o) == o

InitWorkers ==
    /\ pc = "fetch"
    /\ split_file = <<>> /\ lines = <<>> /\ lx = 1 /\ data_tuples = <<>>
    /\ _data_tuples = DataTuples
    /\ _house_cameras = Cameras
    /\ opts \in AllOpts
    /\ raw = None /\ out = None /\ ids1 = <<>> /\ ids2 = <<>> /\ affinity = None
    /\ valid_1 = FALSE /\ valid_2 = FALSE /\ batch = <<>> /\ collated = None
    /\ workers = [w \in Workers |-> Idle]

\* Line 270: a worker starts dataset[index] and reads its tuple.
WorkerBegin(w) ==
    /\ pc = "fetch"
    /\ workers[w].at = "idle"
    /\ \E index \in 0..(Len(_data_tuples) - 1) :
          /\ workers' = [workers EXCEPT ![w] =
                            [Idle EXCEPT !.at = "view1",
                                         !.index = index,
                                         !.house = _data_tuples[index + 1][1],
                                         !.view1 = _data_tuples[index + 1][2],
                                         !.view2 = _data_tuples[index + 1][3]]]
          /\ _data_tuples' = DataTuplesAfterGetItem(_data_tuples, index)
    /\ UNCHANGED <<pc, _house_cameras, opts>>
    /\ UNCHANGED splitVars /\ UNCHANGED codesVars /\ UNCHANGED loaderVars

\* Line 271: forward_single_item(house, view1), on the data set as it is now.
WorkerView1(w) ==
    /\ pc = "fetch"
    /\ workers[w].at = "view1"
    /\ \E draw \in ItemDraws(workers[w].house, workers[w].view1) :
       \E r \in {forward_single_item(workers[w].house, workers[w].view1, draw)} :
          workers' = [workers EXCEPT ![w].r1 = r,
                                     ![w].at = IF r.raised THEN "error" ELSE "view2"]
    /\ _house_cameras' = IF opts.output_codes
                         THEN CamerasAfterCodes(_house_cameras, workers[w].house,
                                                workers[w].view1)
                         ELSE _house_cameras
    /\ opts' = OptsAfterItem(opts)
    /\ UNCHANGED <<pc, _data_tuples>>
    /\ UNCHANGED splitVars /\ UNCHANGED codesVars /\ UNCHANGED loaderVars

\* Line 272: forward_single_item(house, view2), on the data set as it is now.
WorkerView2(w) ==
    /\ pc = "fetch"
    /\ workers[w].at = "view2"
    /\ \E draw \in ItemDraws(workers[w].house, workers[w].view2) :
       \E r \in {forward_single_item(workers[w].house, workers[w].view2, draw)} :
          workers' = [workers EXCEPT ![w].r2 = r,
                                     ![w].at = IF r.raised THEN "error" ELSE "return"]
    /\ _house_cameras' = IF opts.output_codes
                         THEN CamerasAfterCodes(_house_cameras, workers[w].house,
                                                workers[w].view2)
                         ELSE _house_cameras
    /\ opts' = OptsAfterItem(opts)
    /\ UNCHANGED <<pc, _data_tuples>>
    /\ UNCHANGED splitVars /\ UNCHANGED codesVars /\ UNCHANGED loaderVars

\* Lines 273-283: the validity, the affinity and the returned sample.
WorkerReturn(w) ==
    /\ pc = "fetch"
    /\ workers[w].at = "return"
    /\ \E r \in {MakeItem(workers[w].r1, workers[w].r2)} :
          workers' = [workers EXCEPT ![w].item = IF r.raised THEN None ELSE r.item,
                                     ![w].at = IF r.raised THEN "error" ELSE "done"]
    /\ opts' = OptsAfterItem(opts)
    /\ UNCHANGED <<pc, _data_tuples, _house_cameras>>
    /\ UNCHANGED splitVars /\ UNCHANGED codesVars /\ UNCHANGED loaderVars

\* The batch boundary: every worker has returned, and the samples are collated.
\* collate_fn is a function of the samples alone.
CollateWorkers ==
    /\ pc = "fetch"
    /\ \A w \in Workers : workers[w].at = "done"
    /\ batch' = <<workers["w1"].item, workers["w2"].item>>
    /\ \E r \in {collate_fn(<<workers["w1"].item, workers["w2"].item>>)} :
           IF r.raised
           THEN pc' = "collate_error" /\ UNCHANGED collated
           ELSE pc' = "collated" /\ collated' = r.batch
    /\ UNCHANGED <<valid_1, valid_2, workers, _data_tuples, _house_cameras, opts>>
    /\ UNCHANGED splitVars /\ UNCHANGED codesVars

\* The batch is consumed and the workers are handed the next indices.
WorkersNextBatch ==
    /\ pc = "collated"
    /\ pc' = "fetch"
    /\ batch' = <<>>
    /\ collated' = None
    /\ workers' = [w \in Workers |-> Idle]
    /\ UNCHANGED <<valid_1, valid_2, _data_tuples, _house_cameras, opts>>
    /\ UNCHANGED splitVars /\ UNCHANGED codesVars

NextWorkers ==
    \/ \E w \in Workers : WorkerBegin(w)
    \/ \E w \in Workers : WorkerView1(w)
    \/ \E w \in Workers : WorkerView2(w)
    \/ \E w \in Workers : WorkerReturn(w)
    \/ CollateWorkers
    \/ WorkersNextBatch

SpecWorkers == InitWorkers /\ [][NextWorkers]_vars

----------------------------------------------------------------------------
(* The claim about the workers, under SpecWorkers.                         *)

\* The sample a worker returned is one that __getitem__ of its index returns
\* on the data set as construction left it.
ReturnsOfConstruction(w) ==
    \E draw1 \in ItemDraws(DataTuples[workers[w].index + 1][1],
                           DataTuples[workers[w].index + 1][2]),
       draw2 \in ItemDraws(DataTuples[workers[w].index + 1][1],
                           DataTuples[workers[w].index + 1][3]) :
        /\ ~getitem(workers[w].index, draw1, draw2).raised
        /\ getitem(workers[w].index, draw1, draw2).item = workers[w].item

\* C11: fetching is stateless. No step of any interleaving of __getitem__
\* calls, and no collation of their results, changes _data_tuples,
\* _house_cameras or the configuration fields; the data set stays as
\* construction left it, so every sample a worker returns is what its fetch
\* returns on that data set, whatever the other worker did meanwhile.
C11_Stateless ==
    /\ [][/\ _data_tuples' = _data_tuples
          /\ _house_cameras' = _house_cameras
          /\ opts' = opts]_vars
    /\ [](/\ _data_tuples = DataTuples
          /\ _house_cameras = Cameras
          /\ \A w \in Workers : workers[w].at = "done" => ReturnsOfConstruction(w))

\* One worker has returned a sample with codes of one index while the other is
\* between the two views of another index.
C11_Witness ==
    /\ opts.output_codes
    /\ workers["w1"].at = "view2"
    /\ workers["w2"].at = "done"
    /\ workers["w1"].index # workers["w2"].index
    /\ Len(workers["w2"].item.views[1].val["codes"].data) > 0
    /\ workers["w1"].r1 # None

====
